---- MODULE Spec2Model ----
(***************************************************************************)
(* Session management service of src/main.py: FastAPI handlers that keep   *)
(* one Redis hash per session at key session:<id>, with a sliding TTL.     *)
(*                                                                         *)
(* A handler is a sequence of Redis commands.  Each command is atomic in   *)
(* the store; between two commands of one handler the store may change:    *)
(* a key's TTL may run out, and a handler of another worker process that   *)
(* shares the store may run a command.  One action of the model is one     *)
(* Redis command together with the handler's local code around it: the     *)
(* code before the first command belongs to the first action and the       *)
(* construction of the response to the last.  Parameter ok of an action    *)
(* is the outcome of its command: the store answers it, or the client      *)
(* raises an exception and the command has no effect.                      *)
(***************************************************************************)
EXTENDS Integers, FiniteSets, Sequences, TLC

(***************************** bounds **************************************)
\* number of requests that can be in progress at the same time
NProc == 2
\* number of session ids uuid4 hands out in one run
MaxSessions == 2
\* number of requests started in one run
MaxRequests == 3
\* seconds that pass in one step of the clock
TickUnit == 50

(************************* program constants *******************************)
SESSION_TIMEOUT_SECONDS == 100

\* reply of the Redis TTL command for a key that has no expiration
NoExpiry == -1

Procs == 1..NProc

\* values of the session_id cookie parameter (Optional[str]): None when the
\* request carries no cookie, the empty string, or a non-empty string.  The
\* non-empty strings are the textual uuids; number 0 is a well-formed id that
\* uuid4 never returns in the run.
None == <<>>
EmptyStr == <<"">>
Uuid(n) == <<"uuid", n>>
UnknownId == Uuid(0)

Usernames == {"alice", "bob"}
\* the key and value query parameters of /set-session-data
Keys == {"user", "color"}
Values == {"red", "blue"}

\* a hash with no fields: what HGETALL returns for a missing key
EmptyHash == [f \in {} |-> ""]

\* f"session:{session_id}"
SessionKey(sid) == <<"session:", sid>>

VARIABLES
  phase,      \* "starting", "serving" or "exited": module initialisation
  store,      \* the Redis database: key |-> [hash, ttl], for the keys that exist
  nextId,     \* number of uuids generated so far
  started,    \* number of requests started so far
  pc,         \* per request slot: the store command its handler runs next
  req,        \* per request slot: the request being handled
  loc,        \* per request slot: the handler's local variables
  last,       \* the response sent last, with the request it answers
  issued,     \* session id |-> user, for every login response clients received
  loggedOut,  \* history: ids whose key a logout has deleted
  expired,    \* history: ids whose key the TTL removed, not written since
  rewritten,  \* history: ids whose user or status field /set-session-data wrote
  recreated   \* history: ids whose key the HSET of /set-session-data created

vars == <<phase, store, nextId, started, pc, req, loc, last,
          issued, loggedOut, expired, rewritten, recreated>>
hist == <<loggedOut, expired, rewritten, recreated>>

(************************** the Redis commands *****************************)
\* variant: the write replaces the whole hash
Merge_replace(old, new) == new

\* dict | dict: the fields of new replace those of old, the others stay
Merge(old, new) ==
  [f \in DOMAIN old \cup DOMAIN new |-> IF f \in DOMAIN new THEN new[f] ELSE old[f]]

\* HSET key field value [field value ...]: creates the hash, with no
\* expiration, when the key is missing; keeps the other fields and the TTL
\* when it exists
r_hset(st, key, mapping) ==
  IF key \in DOMAIN st
    THEN [st EXCEPT ![key].hash = Merge(st[key].hash, mapping)]
    ELSE [k \in DOMAIN st \cup {key} |->
            IF k = key THEN [hash |-> mapping, ttl |-> NoExpiry] ELSE st[k]]

\* variant: the TTL is never set
r_expire_noop(st, key, seconds) == st

\* variant: the TTL of every key is set
r_expire_all(st, key, seconds) == [k \in DOMAIN st |-> [st[k] EXCEPT !.ttl = seconds]]

\* EXPIRE key seconds: sets the TTL of an existing key, does nothing otherwise
r_expire(st, key, seconds) ==
  IF key \in DOMAIN st THEN [st EXCEPT ![key].ttl = seconds] ELSE st

\* HGETALL key: all fields, or the empty dict for a missing key
r_hgetall(st, key) ==
  IF key \in DOMAIN st THEN st[key].hash ELSE EmptyHash

\* variant: the existence check always passes
r_exists_always(st, key) == TRUE

\* EXISTS key
r_exists(st, key) == key \in DOMAIN st

\* variant: the key is not deleted
r_delete_noop(st, key) == st

\* DEL key: removes the key if it is there
r_delete(st, key) == [k \in DOMAIN st \ {key} |-> st[k]]

\* variant: the scan misses the keys of the sessions of alice
r_scan_iter_partial(st) ==
  {k \in DOMAIN st : k[1] = "session:" /\ st[k].hash # [user |-> "alice", status |-> "active"]}

\* SCAN MATCH session:* : the keys with the session prefix
r_scan_iter(st) == {k \in DOMAIN st : k[1] = "session:"}

(***************************** responses ***********************************)
\* variant: the check is session_id is None, so an empty cookie passes
Truthy_notnone(session_id) == session_id # None

\* Python truthiness of the cookie parameter: None and "" are falsy
Truthy(session_id) == session_id # None /\ session_id # EmptyStr

NoLocals == [session_id |-> None, session_data |-> EmptyHash,
             keys |-> {}, sessions |-> EmptyHash]

NoRequest == [op |-> "none", session_id |-> None, username |-> "",
              key |-> "", value |-> ""]

\* a response with the given status and nothing else
Response(status) ==
  [status |-> status, session_id |-> None, user |-> "",
   session_data |-> EmptyHash, sessions |-> EmptyHash,
   cookie_op |-> "none", cookie_value |-> None]

\* raise HTTPException(status_code=...): no body fields, no cookie change
HTTPException(status_code) == Response(status_code)

\* variant: the exception is swallowed and the handler answers normally
ServerError_swallowed == Response(200)

\* an exception of the Redis client that the handler does not catch:
\* the framework answers 500
ServerError == Response(500)

\* the cookies a client can send: none, an empty one, an id no login ever
\* returned, or an id taken from a login response
Cookies == {None, EmptyStr, UnknownId} \cup DOMAIN issued

NoLast == [req |-> NoRequest, resp |-> Response(0)]

\* a request can start in slot p
CanStart(p) ==
  /\ phase = "serving"
  /\ pc[p] = "idle"
  /\ \A o \in Procs : o < p => pc[o] # "idle"
  /\ started < MaxRequests

\* the handler of slot p answers request q with response r
Return(p, q, r) ==
  /\ pc' = [pc EXCEPT ![p] = "idle"]
  /\ req' = [req EXCEPT ![p] = NoRequest]
  /\ loc' = [loc EXCEPT ![p] = NoLocals]
  /\ last' = [req |-> q, resp |-> r]

\* the handler of request q in slot p goes on to its next store command
\* with locals l
Continue(p, q, next, l) ==
  /\ pc' = [pc EXCEPT ![p] = next]
  /\ req' = [req EXCEPT ![p] = q]
  /\ loc' = [loc EXCEPT ![p] = l]
  /\ last' = NoLast

(************************** initialisation *********************************)
Init ==
  /\ phase = "starting"
  /\ store = EmptyHash
  /\ nextId = 0
  /\ started = 0
  /\ pc = [p \in Procs |-> "idle"]
  /\ req = [p \in Procs |-> NoRequest]
  /\ loc = [p \in Procs |-> NoLocals]
  /\ last = NoLast
  /\ issued = EmptyHash
  /\ loggedOut = {}
  /\ expired = {}
  /\ rewritten = {}
  /\ recreated = {}

\* variant: the failure of the startup PING is only printed
redis_pool_lenient(ok) ==
  /\ phase = "starting"
  /\ phase' = "serving"
  /\ last' = NoLast
  /\ UNCHANGED <<store, nextId, started, pc, req, loc, issued, hist>>

\* module level: build the pool, ping, exit(1) on any exception
redis_pool(ok) ==
  /\ phase = "starting"
  /\ phase' = IF ok THEN "serving" ELSE "exited"
  /\ last' = NoLast
  /\ UNCHANGED <<store, nextId, started, pc, req, loc, issued, hist>>

(****************************** POST /login ********************************)
\* variant: the generator repeats an id
uuid4_reused == Uuid(1)

\* str(uuid.uuid4()): an id that was never generated before
uuid4 == Uuid(nextId + 1)

\* variant: the user is stored under another field name
NewSessionData_renamed(username) == [username |-> username, status |-> "active"]

\* the session_data dict of a new session
NewSessionData(username) == [user |-> username, status |-> "active"]

\* uuid4, the session_data dict and HSET
login(p, username, ok) ==
  /\ CanStart(p)
  /\ nextId < MaxSessions
  /\ nextId' = nextId + 1
  /\ started' = started + 1
  /\ LET q == [NoRequest EXCEPT !.op = "login", !.username = username]
         session_id == uuid4
         session_data == NewSessionData(username)
     IN IF ok
          THEN /\ store' = r_hset(store, SessionKey(session_id), session_data)
               /\ Continue(p, q, "login_expire", [NoLocals EXCEPT !.session_id = session_id])
          ELSE /\ store' = store
               /\ Return(p, q, ServerError)
  /\ UNCHANGED <<phase, issued, hist>>

\* EXPIRE, set_cookie and the response body
login_expire(p, ok) ==
  /\ pc[p] = "login_expire"
  /\ LET session_id == loc[p].session_id
     IN IF ok
          THEN /\ store' = r_expire(store, SessionKey(session_id), SESSION_TIMEOUT_SECONDS)
               /\ Return(p, req[p], [Response(200) EXCEPT !.session_id = session_id,
                                                          !.user = req[p].username,
                                                          !.cookie_op = "set",
                                                          !.cookie_value = session_id])
               /\ issued' = [s \in DOMAIN issued \cup {session_id} |->
                               IF s = session_id THEN req[p].username ELSE issued[s]]
          ELSE /\ store' = store
               /\ Return(p, req[p], ServerError)
               /\ issued' = issued
  /\ UNCHANGED <<phase, nextId, started, hist>>

(****************************** GET /profile *******************************)
\* variant: the check of the HGETALL reply is missing
NotFound_never(session_data) == FALSE

\* not session_data: HGETALL found no field
NotFound(session_data) == session_data = EmptyHash

\* the cookie check, HGETALL and the check of its reply
get_profile(p, session_id, ok) ==
  /\ CanStart(p)
  /\ started' = started + 1
  /\ LET q == [NoRequest EXCEPT !.op = "profile", !.session_id = session_id]
     IN IF ~Truthy(session_id)
          THEN Return(p, q, HTTPException(403))
          ELSE IF ~ok
            THEN Return(p, q, ServerError)
            ELSE LET session_data == r_hgetall(store, SessionKey(session_id))
                 IN IF NotFound(session_data)
                      THEN Return(p, q, HTTPException(404))
                      ELSE Continue(p, q, "get_profile_expire",
                                    [NoLocals EXCEPT !.session_data = session_data])
  /\ UNCHANGED <<phase, store, nextId, issued, hist>>

\* EXPIRE and the response body
get_profile_expire(p, ok) ==
  /\ pc[p] = "get_profile_expire"
  /\ IF ok
       THEN /\ store' = r_expire(store, SessionKey(req[p].session_id), SESSION_TIMEOUT_SECONDS)
            /\ Return(p, req[p], [Response(200) EXCEPT !.session_id = req[p].session_id,
                                                       !.session_data = loc[p].session_data])
       ELSE /\ store' = store
            /\ Return(p, req[p], ServerError)
  /\ UNCHANGED <<phase, nextId, started, issued, hist>>

(****************************** POST /logout *******************************)
\* DEL when the cookie is truthy, delete_cookie and the response body
logout(p, session_id, ok) ==
  /\ CanStart(p)
  /\ started' = started + 1
  /\ LET q == [NoRequest EXCEPT !.op = "logout", !.session_id = session_id]
     IN IF Truthy(session_id) /\ ~ok
          THEN /\ store' = store
               /\ loggedOut' = loggedOut
               /\ Return(p, q, ServerError)
          ELSE /\ store' = IF Truthy(session_id)
                             THEN r_delete(store, SessionKey(session_id))
                             ELSE store
               /\ loggedOut' = IF Truthy(session_id)
                                 THEN loggedOut \cup {session_id}
                                 ELSE loggedOut
               /\ Return(p, q, [Response(200) EXCEPT !.cookie_op = "delete"])
  /\ UNCHANGED <<phase, nextId, issued, expired, rewritten, recreated>>

(************************* POST /set-session-data **************************)
\* the cookie check and EXISTS
set_session_data(p, session_id, key, value, ok) ==
  /\ CanStart(p)
  /\ started' = started + 1
  /\ LET q == [NoRequest EXCEPT !.op = "set_session_data", !.session_id = session_id,
                                !.key = key, !.value = value]
     IN IF ~Truthy(session_id)
          THEN Return(p, q, HTTPException(403))
          ELSE IF ~ok
            THEN Return(p, q, ServerError)
            ELSE IF ~r_exists(store, SessionKey(session_id))
              THEN Return(p, q, HTTPException(404))
              ELSE Continue(p, q, "set_session_data_hset", NoLocals)
  /\ UNCHANGED <<phase, store, nextId, issued, hist>>

\* HSET of the one field
set_session_data_hset(p, ok) ==
  /\ pc[p] = "set_session_data_hset"
  /\ LET sid == req[p].session_id
         creates == ~r_exists(store, SessionKey(sid))
     IN IF ok
          THEN /\ store' = r_hset(store, SessionKey(sid),
                                  [f \in {req[p].key} |-> req[p].value])
               /\ rewritten' = IF req[p].key \in {"user", "status"}
                                 THEN rewritten \cup {sid} ELSE rewritten
               /\ recreated' = IF creates THEN recreated \cup {sid} ELSE recreated
               /\ expired' = IF creates THEN expired \ {sid} ELSE expired
               /\ Continue(p, req[p], "set_session_data_expire", NoLocals)
          ELSE /\ store' = store
               /\ UNCHANGED <<rewritten, recreated, expired>>
               /\ Return(p, req[p], ServerError)
  /\ UNCHANGED <<phase, nextId, started, issued, loggedOut>>

\* EXPIRE and the response body
set_session_data_expire(p, ok) ==
  /\ pc[p] = "set_session_data_expire"
  /\ IF ok
       THEN /\ store' = r_expire(store, SessionKey(req[p].session_id), SESSION_TIMEOUT_SECONDS)
            /\ Return(p, req[p], Response(200))
       ELSE /\ store' = store
            /\ Return(p, req[p], ServerError)
  /\ UNCHANGED <<phase, nextId, started, issued, hist>>

(**************************** GET /admin/sessions **************************)
\* sessions[key] = session_data
Put(sessions, key, session_data) ==
  [k \in DOMAIN sessions \cup {key} |-> IF k = key THEN session_data ELSE sessions[k]]

\* SCAN: the keys the loop will visit
get_all_sessions(p, ok) ==
  /\ CanStart(p)
  /\ started' = started + 1
  /\ LET q == [NoRequest EXCEPT !.op = "get_all_sessions"]
     IN IF ~ok
          THEN Return(p, q, ServerError)
          ELSE LET keys == r_scan_iter(store)
               IN IF keys = {}
                    THEN Return(p, q, Response(200))
                    ELSE Continue(p, q, "get_all_sessions_hgetall",
                                  [NoLocals EXCEPT !.keys = keys])
  /\ UNCHANGED <<phase, store, nextId, issued, hist>>

\* one turn of the loop: HGETALL of the next key; the response body after
\* the last one
get_all_sessions_hgetall(p, ok) ==
  /\ pc[p] = "get_all_sessions_hgetall"
  /\ IF ~ok
       THEN Return(p, req[p], ServerError)
       ELSE \E key \in loc[p].keys :
              LET sessions == Put(loc[p].sessions, key, r_hgetall(store, key))
                  keys == loc[p].keys \ {key}
              IN IF keys = {}
                   THEN Return(p, req[p], [Response(200) EXCEPT !.sessions = sessions])
                   ELSE Continue(p, req[p], "get_all_sessions_hgetall",
                                 [NoLocals EXCEPT !.keys = keys, !.sessions = sessions])
  /\ UNCHANGED <<phase, store, nextId, started, issued, hist>>

(******************************* GET /health *******************************)
\* variant: the exception of PING is not caught
health_check_uncaught(p, ok) ==
  /\ CanStart(p)
  /\ started' = started + 1
  /\ Return(p, [NoRequest EXCEPT !.op = "health_check"],
            IF ok THEN Response(200) ELSE ServerError)
  /\ UNCHANGED <<phase, store, nextId, issued, hist>>

\* PING; any exception becomes 503
health_check(p, ok) ==
  /\ CanStart(p)
  /\ started' = started + 1
  /\ Return(p, [NoRequest EXCEPT !.op = "health_check"],
            IF ok THEN Response(200) ELSE HTTPException(503))
  /\ UNCHANGED <<phase, store, nextId, issued, hist>>

(********************************* GET / ***********************************)
root(p) ==
  /\ CanStart(p)
  /\ started' = started + 1
  /\ Return(p, [NoRequest EXCEPT !.op = "root"], Response(200))
  /\ UNCHANGED <<phase, store, nextId, issued, hist>>

(******************************* the clock *********************************)
\* TickUnit seconds pass: Redis counts down every TTL and removes the keys
\* whose TTL has run out; a key with no expiration stays
Remaining(rec) == IF rec.ttl = NoExpiry THEN NoExpiry ELSE rec.ttl - TickUnit

Alive(rec) == rec.ttl = NoExpiry \/ rec.ttl > TickUnit

Tick ==
  /\ \E k \in DOMAIN store : store[k].ttl # NoExpiry
  /\ store' = [k \in {j \in DOMAIN store : Alive(store[j])} |->
                 [store[k] EXCEPT !.ttl = Remaining(store[k])]]
  /\ expired' = expired \cup {k[2] : k \in {j \in DOMAIN store : ~Alive(store[j])}}
  /\ last' = NoLast
  /\ UNCHANGED <<phase, nextId, started, pc, req, loc, issued,
                 loggedOut, rewritten, recreated>>

\* one step of the service, where Outcomes are the outcomes a Redis command
\* can have: TRUE when it is answered, FALSE when the client raises
Step(Outcomes) ==
  \/ \E ok \in Outcomes : redis_pool(ok)
  \/ \E p \in Procs, u \in Usernames, ok \in Outcomes : login(p, u, ok)
  \/ \E p \in Procs, ok \in Outcomes : login_expire(p, ok)
  \/ \E p \in Procs, c \in Cookies, ok \in Outcomes : get_profile(p, c, ok)
  \/ \E p \in Procs, ok \in Outcomes : get_profile_expire(p, ok)
  \/ \E p \in Procs, c \in Cookies, ok \in Outcomes : logout(p, c, ok)
  \/ \E p \in Procs, c \in Cookies, k \in Keys, v \in Values, ok \in Outcomes :
       set_session_data(p, c, k, v, ok)
  \/ \E p \in Procs, ok \in Outcomes : set_session_data_hset(p, ok)
  \/ \E p \in Procs, ok \in Outcomes : set_session_data_expire(p, ok)
  \/ \E p \in Procs, ok \in Outcomes : get_all_sessions(p, ok)
  \/ \E p \in Procs, ok \in Outcomes : get_all_sessions_hgetall(p, ok)
  \/ \E p \in Procs, ok \in Outcomes : health_check(p, ok)
  \/ \E p \in Procs : root(p)
  \/ Tick

\* the service with a store that answers every command
Next == Step({TRUE})
Spec == Init /\ [][Next]_vars

\* the service with a store that can be unreachable for any command
NextF == Step(BOOLEAN)
SpecF == Init /\ [][NextF]_vars

(***************************************************************************)
(* Properties.  A step that sends a response leaves it in last; every      *)
(* other step clears last, so last' # NoLast holds exactly in the steps    *)
(* that answer a request.                                                  *)
(***************************************************************************)
\* the record of session s is in the store st
Stored(st, s) == SessionKey(s) \in DOMAIN st

\* hash h has field f with value v
HasField(h, f, v) == f \in DOMAIN h /\ h[f] = v

\* the request whose handler starts in this step (when started' # started)
NewRequest ==
  IF last' # NoLast
    THEN last'.req
    ELSE req'[CHOOSE p \in Procs : pc[p] = "idle" /\ pc'[p] # "idle"]

\* this step is the first step of a request with operation op and cookie c
Starts(op, c) ==
  started' # started /\ NewRequest.op = op /\ NewRequest.session_id = c

\* this step answers a request with operation op with the given status
Answers(op, status) ==
  last' # NoLast /\ last'.req.op = op /\ last'.resp.status = status

\* response r is a profile of an active session of user u
ProfileShows(r, u) ==
  /\ r.status = 200
  /\ HasField(r.session_data, "user", u)
  /\ HasField(r.session_data, "status", "active")

\* no logout and no TTL expiry has removed the record of s since its login
Undisturbed(s) == s \notin loggedOut /\ s \notin expired /\ s \notin recreated

\* C1 as stated: after a login of user u returned session id s, a
\* GET /profile with cookie s, with no logout and no TTL expiry of s in
\* between, returns 200 with session_data.user = u and status "active".
C1_RoundTripAsStated ==
  [][\A s \in DOMAIN issued :
       (last' # NoLast /\ last'.req.op = "profile" /\ last'.req.session_id = s
          /\ Undisturbed(s))
       => ProfileShows(last'.resp, issued[s])]_vars

\* C1 amended: the same, when moreover no /set-session-data has written the
\* user or status field of s in between.
C1_RoundTrip ==
  [][\A s \in DOMAIN issued :
       (last' # NoLast /\ last'.req.op = "profile" /\ last'.req.session_id = s
          /\ Undisturbed(s) /\ s \notin rewritten)
       => ProfileShows(last'.resp, issued[s])]_vars

C1_Witness ==
  /\ last.req.op = "profile"
  /\ last.req.session_id \in DOMAIN issued
  /\ Undisturbed(last.req.session_id)
  /\ last.req.session_id \notin rewritten
  /\ ProfileShows(last.resp, issued[last.req.session_id])
  /\ Cardinality(DOMAIN issued) = 2

\* C2: a login that returns 200 leaves at key session:<id> a record with
\* exactly the fields user = <username> and status = "active" and a TTL of
\* 100 seconds; <id> was returned by no earlier login; the cookie it sets and
\* the session_id of its body are that same <id>.
C2_SessionCreation ==
  [][Answers("login", 200) =>
       LET id == last'.resp.session_id
       IN /\ Stored(store', id)
          /\ store'[SessionKey(id)].hash =
               [user |-> last'.req.username, status |-> "active"]
          /\ store'[SessionKey(id)].ttl = 100
          /\ id \notin DOMAIN issued
          /\ id # None /\ id # EmptyStr
          /\ last'.resp.cookie_op = "set"
          /\ last'.resp.cookie_value = id
          /\ last'.resp.user = last'.req.username]_vars

C2_Witness ==
  /\ last.req.op = "login"
  /\ last.resp.status = 200
  /\ last.resp.session_id = Uuid(2)
  /\ Stored(store, Uuid(1))
  /\ store[SessionKey(Uuid(2))].ttl = 100

\* C3: whenever GET /profile returns 200 for session id s (a session that
\* no logout has deleted), the record of s is in the store when the response
\* is returned and its TTL is 100 seconds.
C3_SlidingExpirationOnRead ==
  [][(Answers("profile", 200) /\ last'.req.session_id \notin loggedOut) =>
       /\ Stored(store', last'.req.session_id)
       /\ store'[SessionKey(last'.req.session_id)].ttl = 100]_vars

\* C4: once the TTL of session s has run out, with no write of s since, the
\* record of s is gone and a GET /profile with cookie s is answered 404.
C4_Expiry ==
  [][\A s \in expired :
       /\ ~Stored(store, s)
       /\ Starts("profile", s) => Answers("profile", 404)]_vars

C4_Witness ==
  /\ last.req.op = "profile"
  /\ last.req.session_id \in expired
  /\ last.resp.status = 404

\* the keys whose record an answered request has read or written and that
\* are still in the store: the cookie's key for /profile and
\* /set-session-data, every key found with fields for /admin/sessions
Touched(ops) ==
  IF last' # NoLast /\ last'.resp.status = 200 /\ last'.req.op \in ops
    THEN IF last'.req.op = "get_all_sessions"
           THEN {k \in DOMAIN last'.resp.sessions :
                   /\ last'.resp.sessions[k] # EmptyHash
                   /\ k[2] \in DOMAIN issued
                   /\ k \in DOMAIN store'}
           ELSE {SessionKey(last'.req.session_id)} \cap DOMAIN store'
    ELSE {}

\* this step is a step of the handler of /admin/sessions
EnumerationStep ==
  \/ last' # NoLast /\ last'.req.op = "get_all_sessions"
  \/ \E p \in Procs : pc'[p] = "get_all_sessions_hgetall"
                        /\ (pc[p] # pc'[p] \/ loc[p] # loc'[p])

C6_MergeNotReplace ==
  [][(Answers("set_session_data", 200) /\ last'.req.session_id \notin loggedOut) =>
       LET s == last'.req.session_id
       IN /\ Stored(store', s)
          /\ store'[SessionKey(s)].ttl = 100
          /\ {"user", "status"} \ {last'.req.key}
               \subseteq DOMAIN store'[SessionKey(s)].hash]_vars

\* C7: a /set-session-data for a session id with no record is answered 404
\* and creates no record; every /profile or /set-session-data answered 403
\* or 404 leaves the store as it is.
C7_RejectedChangesNothing ==
  [][/\ \A c \in Cookies \ {None, EmptyStr} :
          (Starts("set_session_data", c) /\ ~Stored(store, c))
          => (Answers("set_session_data", 404) /\ ~Stored(store', c))
     /\ (\E op \in {"profile", "set_session_data"}, st \in {403, 404} : Answers(op, st))
          => store' = store]_vars

C7_Witness ==
  /\ last.req.op = "set_session_data"
  /\ last.resp.status = 404
  /\ last.req.session_id \in DOMAIN issued
  /\ store # EmptyHash

\* C8: POST /logout returns 200 and clears the cookie whatever the cookie;
\* with a non-empty cookie the record it names is gone afterwards and every
\* other record is as before; with no cookie, an empty one or one that names
\* no record the store stays as it is, so a second logout changes nothing.
C8_LogoutIdempotent ==
  [][\A c \in Cookies :
       Starts("logout", c) =>
         /\ Answers("logout", 200)
         /\ last'.resp.cookie_op = "delete"
         /\ ~Stored(store', c)
         /\ store' = [k \in DOMAIN store \ {SessionKey(c)} |-> store[k]]
         /\ (~Stored(store, c) => store' = store)]_vars

C8_Witness ==
  /\ last.req.op = "logout"
  /\ last.resp.status = 200
  /\ last.req.session_id \in DOMAIN issued
  /\ ~Stored(store, last.req.session_id)
  /\ store # EmptyHash

\* C9: once a logout with cookie s has completed, the record of s never
\* exists again and every later GET /profile with cookie s is answered 404.
C9_LogoutFinal ==
  [][\A s \in loggedOut' :
       /\ ~Stored(store', s)
       /\ (s \in loggedOut /\ Starts("profile", s)) => Answers("profile", 404)]_vars

\* C10: GET /profile and POST /set-session-data with no cookie or an empty
\* one are answered 403, whether or not the store can be reached and
\* whatever it holds; nothing else is answered 403; and 404 answers only a
\* non-empty cookie that names no record.
C10_MissingCookie ==
  [][/\ \A op \in {"profile", "set_session_data"}, c \in {None, EmptyStr} :
          Starts(op, c) => (Answers(op, 403) /\ store' = store)
     /\ (last' # NoLast /\ last'.resp.status = 403)
          => /\ last'.req.op \in {"profile", "set_session_data"}
             /\ last'.req.session_id \in {None, EmptyStr}
     /\ (last' # NoLast /\ last'.resp.status = 404)
          => /\ last'.req.op \in {"profile", "set_session_data"}
             /\ last'.req.session_id \notin {None, EmptyStr}
             /\ ~Stored(store, last'.req.session_id)]_vars

C10_Witness ==
  /\ last.req.op = "set_session_data"
  /\ last.req.session_id = EmptyStr
  /\ last.resp.status = 403
  /\ store # EmptyHash

\* C11: GET /health is answered 200 when PING is answered and 503 when PING
\* raises, never anything else, and it leaves the store as it is.
C11_HealthCheck ==
  [][/\ \A p \in Procs, ok \in BOOLEAN :
          health_check(p, ok) =>
            /\ last'.req.op = "health_check"
            /\ last'.resp.status = (IF ok THEN 200 ELSE 503)
            /\ store' = store
     /\ (last' # NoLast /\ last'.req.op = "health_check")
          => /\ last'.resp.status \in {200, 503}
             /\ started' = started + 1
             /\ store' = store
     /\ (last' # NoLast /\ last'.resp.status = 503)
          => last'.req.op = "health_check"]_vars

C11_Witness ==
  /\ last.req.op = "health_check"
  /\ last.resp.status = 503
  /\ store # EmptyHash

\* C12: in every reachable state each record in the store has at least the
\* fields user and status (stated for the runs in which no logout has
\* deleted a record, so that only TTL expiry removes one).
C12_AttributeInvariant ==
  loggedOut = {} =>
    \A k \in DOMAIN store : {"user", "status"} \subseteq DOMAIN store[k].hash

\* C13: each record in the store has a TTL, of at most 100 seconds, and no
\* record without expiration ever exists (stated for the states in which no
\* handler is between two store commands, after a command may have failed).
C13_TtlInvariant ==
  (\A p \in Procs : pc[p] = "idle") =>
    \A k \in DOMAIN store : store[k].ttl # NoExpiry /\ store[k].ttl <= 100

\* C14: only POST /login brings a record into existence: a key that a step
\* adds to the store is added by the HSET of a login (stated for the runs in
\* which no logout has deleted a record, so that only TTL expiry removes
\* one between the EXISTS and the HSET of /set-session-data).
C14_OnlyLoginCreates ==
  [][loggedOut' = {} =>
       \A k \in DOMAIN store' \ DOMAIN store :
         \E p \in Procs : /\ pc[p] = "idle"
                            /\ pc'[p] = "login_expire"
                            /\ k = SessionKey(loc'[p].session_id)]_vars

\* the handler in slot p does the HSET of /set-session-data in this step
Writes(p) ==
  pc[p] = "set_session_data_hset" /\ pc'[p] = "set_session_data_expire"

\* C15: on a record that is neither deleted nor expired, each HSET of
\* /set-session-data sets its own field to its own value and leaves every
\* other field as it was, and no other step changes a field; so of two
\* concurrent requests, writes to distinct keys both stay (no lost update)
\* and writes to the same key leave the value of the later HSET.
C15_ConcurrentWrites ==
  [][\A k \in DOMAIN store \cap DOMAIN store' :
       /\ \A p \in Procs :
            (Writes(p) /\ SessionKey(req[p].session_id) = k) =>
              /\ HasField(store'[k].hash, req[p].key, req[p].value)
              /\ \A f \in DOMAIN store[k].hash \ {req[p].key} :
                   HasField(store'[k].hash, f, store[k].hash[f])
              /\ DOMAIN store'[k].hash = DOMAIN store[k].hash \cup {req[p].key}
       /\ (~\E p \in Procs : Writes(p) /\ SessionKey(req[p].session_id) = k)
            => store'[k].hash = store[k].hash]_vars

\* two requests on one session, with distinct keys, have both done their
\* HSET and neither has returned: both fields have the written values
C15_Witness ==
  /\ pc = [p \in Procs |-> "set_session_data_expire"]
  /\ req[1].session_id = req[2].session_id
  /\ req[1].key # req[2].key
  /\ Undisturbed(req[1].session_id)
  /\ Stored(store, req[1].session_id)
  /\ \A p \in Procs :
       HasField(store[SessionKey(req[1].session_id)].hash, req[p].key, req[p].value)
  /\ "status" \in DOMAIN store[SessionKey(req[1].session_id)].hash

\* the request of the handler of slot p after this step: in the response
\* when the step answers it, in the slot when the handler goes on
Handled(p) == IF last' # NoLast THEN last'.req ELSE req'[p]

\* a store command of a handler other than /health raises in this step
Fails ==
  \E p \in Procs :
    /\ pc'[p] # pc[p] \/ last' # NoLast
    /\ \/ login(p, Handled(p).username, FALSE)
       \/ login_expire(p, FALSE)
       \/ /\ Handled(p).session_id \notin {None, EmptyStr}
          /\ \/ get_profile(p, Handled(p).session_id, FALSE)
             \/ logout(p, Handled(p).session_id, FALSE)
             \/ set_session_data(p, Handled(p).session_id, Handled(p).key,
                                 Handled(p).value, FALSE)
       \/ get_profile_expire(p, FALSE)
       \/ set_session_data_hset(p, FALSE)
       \/ set_session_data_expire(p, FALSE)
       \/ get_all_sessions(p, FALSE)
       \/ get_all_sessions_hgetall(p, FALSE)

\* C16: when a store command raises in login, profile, logout,
\* set-session-data or the session enumeration, the request is answered
\* with a 5xx status other than 503, with no session id and no cookie, and
\* the failed command changes nothing in the store; a login that is not
\* answered 200 returns no session id and sets no cookie; 503 answers only
\* a health check whose PING raised.
C16_StoreFailure ==
  [][/\ Fails =>
          /\ last' # NoLast
          /\ last'.resp.status \in 500..599
          /\ last'.resp.status # 503
          /\ last'.resp.session_id = None
          /\ last'.resp.cookie_op = "none"
          /\ store' = store
          /\ issued' = issued
     /\ (last' # NoLast /\ last'.req.op = "login" /\ last'.resp.status # 200)
          => /\ last'.resp.status = 500
             /\ last'.resp.session_id = None
             /\ last'.resp.cookie_op = "none"
             /\ issued' = issued
     /\ (last' # NoLast /\ last'.resp.status \in 500..599 /\ last'.req.op # "health_check")
          => Fails
     /\ \A p \in Procs : health_check(p, FALSE) => last'.resp.status = 503]_vars

\* the EXPIRE of a login raised after its HSET was done
C16_Witness ==
  /\ last.req.op = "login"
  /\ last.resp.status = 500
  /\ last.resp.cookie_op = "none"
  /\ issued = EmptyHash
  /\ store # EmptyHash

\* the fields of every record of store st
Contents(st) == [k \in DOMAIN st |-> st[k].hash]

\* what the enumeration of slot p has collected and what it has still to
\* visit agree with the store
Consistent(p) ==
  /\ loc[p].keys \cup DOMAIN loc[p].sessions = DOMAIN store
  /\ loc[p].keys \cap DOMAIN loc[p].sessions = {}
  /\ \A k \in DOMAIN loc[p].sessions : loc[p].sessions[k] = store[k].hash

\* C17: GET /admin/sessions is answered 200 with a mapping whose keys are
\* session keys the scan found; as long as no step adds, removes or changes
\* a record during the scan, what the enumeration has collected agrees with
\* the store, and the mapping it returns is exactly the store's contents:
\* one entry per record, mapped to its fields.
C17_Enumeration ==
  [][/\ (last' # NoLast /\ last'.req.op = "get_all_sessions")
          => /\ last'.resp.status = 200
             /\ \A k \in DOMAIN last'.resp.sessions : k[1] = "session:"
     /\ (started' # started /\ last' # NoLast /\ last'.req.op = "get_all_sessions")
          => (store = EmptyHash /\ last'.resp.sessions = Contents(store))
     /\ \A p \in Procs :
          /\ (pc[p] = "idle" /\ pc'[p] = "get_all_sessions_hgetall") => Consistent(p)'
          /\ (pc[p] = "get_all_sessions_hgetall" /\ Consistent(p)
                /\ Contents(store') = Contents(store))
               => IF pc'[p] = "get_all_sessions_hgetall"
                    THEN Consistent(p)'
                    ELSE /\ last'.req.op = "get_all_sessions"
                         /\ last'.resp.sessions = Contents(store')]_vars

\* an enumeration returned the two records of the store, with their fields
C17_Witness ==
  /\ last.req.op = "get_all_sessions"
  /\ last.resp.status = 200
  /\ Cardinality(DOMAIN store) = 2
  /\ last.resp.sessions = Contents(store)
  /\ \E k \in DOMAIN store : HasField(store[k].hash, "user", "bob")
  /\ \E k \in DOMAIN store : HasField(store[k].hash, "user", "alice")

\* C18: no request is handled unless the PING at startup was answered: a
\* request starts, goes on or is answered only while the service is
\* serving, which it is only after a PING that was answered; when the PING
\* raises the process exits, having handled no request, and does nothing
\* more.
C18_FailFastStartup ==
  [][/\ redis_pool(FALSE) => (phase' = "exited" /\ started' = 0 /\ store' = EmptyHash)
     /\ redis_pool(TRUE) => phase' = "serving"
     /\ phase' = "serving" => (phase = "serving" \/ redis_pool(TRUE))
     /\ (started' # started \/ pc' # pc \/ last' # NoLast \/ store' # store)
          => (phase = "serving" /\ phase' = "serving")
     /\ phase # "exited"]_vars

\* the PING at startup raised and the process has exited
C18_Witness ==
  /\ phase = "exited"
  /\ started = 0
  /\ last = NoLast
  /\ \A p \in Procs : pc[p] = "idle"

\* this step is a step of a request acting on session id s: the login that
\* creates s, or a profile, set-session-data or logout with cookie s
ActsOn(s) ==
  \/ \E p \in Procs : /\ pc[p] = "idle"
                        /\ pc'[p] = "login_expire"
                        /\ loc'[p].session_id = s
  \/ \E p \in Procs : /\ pc[p] = "login_expire"
                        /\ pc'[p] = "idle"
                        /\ loc[p].session_id = s
  \/ \E p \in Procs : /\ pc[p] \in {"get_profile_expire", "set_session_data_hset",
                                      "set_session_data_expire"}
                        /\ pc'[p] # pc[p]
                        /\ req[p].session_id = s
  \/ \E op \in {"profile", "set_session_data", "logout"} : Starts(op, s)

\* every record but that of s is the same before and after this step
OthersUnchanged(s) ==
  \A k \in (DOMAIN store \cup DOMAIN store') \ {SessionKey(s)} :
    k \in DOMAIN store /\ k \in DOMAIN store' /\ store'[k] = store[k]

\* C19: every step of a request acting on session id s leaves every record
\* with another id as it is, fields and TTL; the id of a login names no
\* record and was given to no earlier login, so a login neither overwrites
\* nor refreshes a session that exists.
C19_SessionIsolation ==
  [][/\ \A s \in {None, EmptyStr, UnknownId} \cup {Uuid(n) : n \in 1..MaxSessions} :
          ActsOn(s) => OthersUnchanged(s)
     /\ \A p \in Procs :
          (pc[p] = "idle" /\ pc'[p] = "login_expire")
          => /\ ~Stored(store, loc'[p].session_id)
             /\ loc'[p].session_id \notin DOMAIN issued
             /\ \A o \in Procs \ {p} : loc[o].session_id # loc'[p].session_id
             /\ store' = [k \in DOMAIN store \cup {SessionKey(loc'[p].session_id)} |->
                            IF k \in DOMAIN store THEN store[k] ELSE store'[k]]]_vars

\* a profile has refreshed its own session and the record of the session of
\* the other user has kept its lower TTL
C19_Witness ==
  /\ last.req.op = "profile"
  /\ last.resp.status = 200
  /\ Stored(store, last.req.session_id)
  /\ store[SessionKey(last.req.session_id)].ttl = 100
  /\ \E k \in DOMAIN store \ {SessionKey(last.req.session_id)} :
       /\ store[k].ttl < 100
       /\ store[k].ttl # NoExpiry
       /\ HasField(store[k].hash, "user", "alice")
  /\ HasField(store[SessionKey(last.req.session_id)].hash, "user", "bob")

====
